---- MODULE Spec2Model ----
(***************************************************************************)
(* A model of zulu's two value types: DateTime (src/zulu/utc.py), the      *)
(* UTC-normalised instant, and Delta (src/zulu/timedelta.py), the          *)
(* arithmetic-closed duration.  The native datetime/timedelta/float and    *)
(* pytz behaviour the code calls into is modelled by what it computes.     *)
(***************************************************************************)
EXTENDS Integers, Sequences, FiniteSets, TLC

VARIABLES
    x,      \* the DateTime instance the client currently holds (or NoObj)
    src,    \* history: the constructor arguments x was built from, if it was
    out,    \* the record of the last DateTime operation and what it returned
    da,     \* the Delta the client constructed last
    dout    \* the record of the last Delta operation and what it returned

vars == <<x, src, out, da, dout>>

(***************************************************************************)
(* Arbitrary-precision naturals: little-endian sequences of limbs, no      *)
(* leading zero limb; <<>> is 0.  Python integers are unbounded, and the   *)
(* microsecond count of a timedelta needs up to 67 bits.                   *)
(***************************************************************************)
LimbBits == 15

LimbBase == 2^LimbBits

RECURSIVE BNorm(_)
BNorm(a) ==
    IF a = <<>> THEN <<>>
    ELSE IF a[Len(a)] = 0 THEN BNorm(SubSeq(a, 1, Len(a) - 1))
    ELSE a

RECURSIVE BFromInt(_)
BFromInt(n) ==
    IF n = 0 THEN <<>> ELSE <<n % LimbBase>> \o BFromInt(n \div LimbBase)

RECURSIVE BToInt(_)
BToInt(a) ==
    IF a = <<>> THEN 0 ELSE a[1] + LimbBase * BToInt(Tail(a))

BRest(a) == IF a = <<>> THEN <<>> ELSE Tail(a)

BLow(a) == IF a = <<>> THEN 0 ELSE a[1]

RECURSIVE BAddC(_, _, _)
BAddC(a, b, c) ==
    IF a = <<>> /\ b = <<>>
    THEN (IF c = 0 THEN <<>> ELSE <<c>>)
    ELSE LET s == BLow(a) + BLow(b) + c
         IN  <<s % LimbBase>> \o BAddC(BRest(a), BRest(b), s \div LimbBase)

BAdd(a, b) == BAddC(a, b, 0)

\* a - b for a >= b
RECURSIVE BSubC(_, _, _)
BSubC(a, b, c) ==
    IF a = <<>> THEN <<>>
    ELSE LET s == BLow(a) - BLow(b) - c
         IN  <<s % LimbBase>> \o BSubC(BRest(a), BRest(b), IF s < 0 THEN 1 ELSE 0)

BSub(a, b) == BNorm(BSubC(a, b, 0))

RECURSIVE BCmpAt(_, _, _)
BCmpAt(a, b, i) ==
    IF i = 0 THEN 0
    ELSE IF a[i] < b[i] THEN -1
    ELSE IF a[i] > b[i] THEN 1
    ELSE BCmpAt(a, b, i - 1)

\* -1, 0 or 1 as a < b, a = b, a > b
BCmp(a, b) ==
    IF Len(a) < Len(b) THEN -1
    ELSE IF Len(a) > Len(b) THEN 1
    ELSE BCmpAt(a, b, Len(a))

RECURSIVE BMulLimbC(_, _, _)
BMulLimbC(a, d, c) ==
    IF a = <<>> THEN BFromInt(c)
    ELSE LET s == a[1] * d + c
         IN  <<s % LimbBase>> \o BMulLimbC(Tail(a), d, s \div LimbBase)

\* a times one limb d
BMulLimb(a, d) == BNorm(BMulLimbC(a, d, 0))

BShiftLimb(a) == IF a = <<>> THEN <<>> ELSE <<0>> \o a

RECURSIVE BMul(_, _)
BMul(a, b) ==
    IF a = <<>> \/ b = <<>> THEN <<>>
    ELSE BAdd(BMulLimb(a, b[1]), BShiftLimb(BMul(a, Tail(b))))

RECURSIVE IntBitLen(_)
IntBitLen(n) == IF n = 0 THEN 0 ELSE 1 + IntBitLen(n \div 2)

BPush(lower, digit) == [q |-> Append(lower.q, digit), r |-> lower.r]

\* a divided by one limb d > 0, from the top limb down: quotient limbs and
\* remainder; cur is what is carried into limb i
RECURSIVE BDivLimbAt(_, _, _, _)
BDivLimbStep(a, d, i, cur) ==
    IF cur < d THEN BPush(BDivLimbAt(a, d, i - 1, cur), 0)
    ELSE BPush(BDivLimbAt(a, d, i - 1, cur % d), cur \div d)

BDivLimbAt(a, d, i, carry) ==
    IF i = 0 THEN [q |-> <<>>, r |-> carry]
    ELSE BDivLimbStep(a, d, i, carry * LimbBase + a[i])

BDivOut(h) == [q |-> BNorm(h.q), r |-> BFromInt(h.r)]

BDivLimb(a, d) == BDivOut(BDivLimbAt(a, d, Len(a), 0))

\* the largest q <= guess with q * b <= cur
RECURSIVE BDigitFix(_, _, _)
BDigitFix(b, cur, guess) ==
    IF BCmp(BMulLimb(b, guess), cur) <= 0 THEN guess ELSE BDigitFix(b, cur, guess - 1)

\* the estimate of a quotient limb from the top limbs of cur and of b
BGuess(b, cur) ==
    LET n   == Len(b)
        top == (IF Len(cur) > n THEN cur[n + 1] ELSE 0) * LimbBase
               + (IF Len(cur) >= n THEN cur[n] ELSE 0)
    IN  IF top \div b[n] > LimbBase - 1 THEN LimbBase - 1 ELSE top \div b[n]

\* schoolbook long division by a divisor b of two or more limbs whose top limb
\* has its high bit set: each quotient limb is estimated from the top limbs;
\* a zero digit subtracts nothing
RECURSIVE BLongDivAt(_, _, _, _)
BLongDivDigit(a, b, i, cur, digit) ==
    IF digit = 0 THEN BPush(BLongDivAt(a, b, i - 1, cur), 0)
    ELSE BPush(BLongDivAt(a, b, i - 1, BSub(cur, BMulLimb(b, digit))), digit)

BLongDivStep(a, b, i, cur) == BLongDivDigit(a, b, i, cur, BDigitFix(b, cur, BGuess(b, cur)))

BLongDivAt(a, b, i, rem) ==
    IF i = 0 THEN [q |-> <<>>, r |-> rem]
    ELSE BLongDivStep(a, b, i, BNorm(<<a[i]>> \o rem))

BLongDiv(a, b) == BLongDivAt(a, b, Len(a), <<>>)

BUnscale(h, f) == [q |-> BNorm(h.q), r |-> BDivLimb(h.r, f).q]

BDivModScaled(a, b, f) == BUnscale(BLongDiv(BMulLimb(a, f), BMulLimb(b, f)), f)

\* floor quotient and remainder of a by b > 0
BDivMod(a, b) ==
    IF BCmp(a, b) < 0 THEN [q |-> <<>>, r |-> a]
    ELSE IF Len(b) = 1 THEN BDivLimb(a, b[1])
    ELSE BDivModScaled(a, b, 2^(LimbBits - IntBitLen(b[Len(b)])))

BBitLen(a) ==
    IF a = <<>> THEN 0 ELSE LimbBits * (Len(a) - 1) + IntBitLen(a[Len(a)])

BPow2(s) ==
    [i \in 1..((s \div LimbBits) + 1) |->
        IF i = (s \div LimbBits) + 1 THEN 2^(s % LimbBits) ELSE 0]

BDropLimbs(a, k) == IF Len(a) <= k THEN <<>> ELSE SubSeq(a, k + 1, Len(a))

BTakeLimbs(a, k) == IF Len(a) <= k THEN a ELSE SubSeq(a, 1, k)

BSplitLimb(high, low, d) ==
    [q |-> BDivLimb(high, d).q, r |-> BNorm(low \o <<BLow(high) % d>>)]

\* a div 2^s and a mod 2^s, by shifting
BSplitBits(a, s) ==
    BSplitLimb(BDropLimbs(a, s \div LimbBits), BTakeLimbs(a, s \div LimbBits),
               2^(s % LimbBits))

\* a * 2^e for e > 0, a for e <= 0
BScale(a, e) == IF e > 0 THEN BMul(a, BPow2(e)) ELSE a

BIsOdd(a) == BLow(a) % 2 = 1

\* q rounded by what is left: c compares twice the remainder with the divisor
BRoundHalfEven(q, c) == IF c > 0 \/ (c = 0 /\ BIsOdd(q)) THEN BAdd(q, <<1>>) ELSE q

(***************************************************************************)
(* Signed integers over the naturals above: Python's int.                  *)
(***************************************************************************)
SInt(neg, mag) == [neg |-> neg /\ mag # <<>>, mag |-> mag]

SFromInt(n) == IF n < 0 THEN SInt(TRUE, BFromInt(-n)) ELSE SInt(FALSE, BFromInt(n))

SToInt(a) == IF a.neg THEN -BToInt(a.mag) ELSE BToInt(a.mag)

SNeg(a) == SInt(~a.neg, a.mag)

SAdd(a, b) ==
    IF a.neg = b.neg THEN SInt(a.neg, BAdd(a.mag, b.mag))
    ELSE IF BCmp(a.mag, b.mag) >= 0 THEN SInt(a.neg, BSub(a.mag, b.mag))
    ELSE SInt(b.neg, BSub(b.mag, a.mag))

SSub(a, b) == SAdd(a, SNeg(b))

SMul(a, b) == SInt(a.neg # b.neg, BMul(a.mag, b.mag))

SCmp(a, b) ==
    IF a.neg /\ ~b.neg THEN -1
    ELSE IF ~a.neg /\ b.neg THEN 1
    ELSE IF a.neg THEN BCmp(b.mag, a.mag)
    ELSE BCmp(a.mag, b.mag)

SFloor(a, b, h) ==
    IF a.neg = b.neg
    THEN [q |-> SInt(FALSE, h.q), r |-> SInt(b.neg, h.r)]
    ELSE IF h.r = <<>>
    THEN [q |-> SInt(TRUE, h.q), r |-> SInt(FALSE, <<>>)]
    ELSE [q |-> SInt(TRUE, BAdd(h.q, <<1>>)),
          r |-> SInt(b.neg, BSub(b.mag, h.r))]

\* Python's divmod on ints: floor quotient, remainder with the sign of b (b # 0)
SDivMod(a, b) == SFloor(a, b, BDivMod(a.mag, b.mag))

SNearest(h, b, c) ==
    IF (IF b.neg THEN c < 0 ELSE c > 0) \/ (c = 0 /\ BIsOdd(h.q.mag))
    THEN SAdd(h.q, SFromInt(1))
    ELSE h.q

SDivNearestOf(h, b) == SNearest(h, b, SCmp(SAdd(h.r, h.r), b))

\* CPython's divide_nearest: the quotient rounded to nearest, ties to even
SDivNearest(a, b) == SDivNearestOf(SDivMod(a, b), b)

(***************************************************************************)
(* The native float (IEEE double): the value (-1)^neg * m / 2^s with       *)
(* m <= 2^53, produced by correctly rounded operations.                    *)
(***************************************************************************)
DoubleMantissaBits == 53

Float(neg, m, s) == [type |-> "float", neg |-> neg /\ m # <<>>, m |-> m, s |-> s]

FloatOut(neg, m, s) ==
    IF s >= 0 THEN Float(neg, m, s) ELSE Float(neg, BMul(m, BPow2(-s)), 0)

\* h is n * 2^s div and mod den, a quotient of 53 or 54 bits; a 54-bit
\* quotient gives up its low bit to the remainder
FloatRound(neg, h, den, s) ==
    IF BBitLen(h.q) > DoubleMantissaBits
    THEN FloatOut(neg,
                  BRoundHalfEven(BDivLimb(h.q, 2).q,
                                 BCmp(BAdd(IF BIsOdd(h.q) THEN den ELSE <<>>, h.r), den)),
                  s - 1)
    ELSE FloatOut(neg, BRoundHalfEven(h.q, BCmp(BAdd(h.r, h.r), den)), s)

FloatDivAt(neg, n, den, s) == FloatRound(neg, BDivMod(BScale(n, s), den), den, s)

\* the double nearest to n / d (n, d naturals, d > 0), ties to even
FloatDiv(neg, n, d) ==
    IF n = <<>> THEN Float(FALSE, <<>>, 0)
    ELSE FloatDivAt(neg, n, BScale(d, (BBitLen(n) - BBitLen(d)) - DoubleMantissaBits),
                    DoubleMantissaBits - (BBitLen(n) - BBitLen(d)))

\* n / 2^s for a natural n, rounded to the 53-bit mantissa: e bits are dropped
FloatRoundBits(neg, h, one, s) ==
    FloatOut(neg, BRoundHalfEven(h.q, BCmp(BAdd(h.r, h.r), one)), s)

FloatOfBits(neg, n, s, e) ==
    IF e <= 0 THEN Float(neg, n, s)
    ELSE FloatRoundBits(neg, BSplitBits(n, e), BPow2(e), s - e)

FloatScaled(neg, n, s) == FloatOfBits(neg, n, s, BBitLen(n) - DoubleMantissaBits)

\* C modf on the magnitude: the whole part and the numerator of the fraction over 2^s
FloatModf(f) == BSplitBits(f.m, f.s)

(***************************************************************************)
(* The native timedelta: the normalised (days, seconds, microseconds)      *)
(* triple, 0 <= seconds < 86400, 0 <= microseconds < 10^6,                 *)
(* |days| <= 999999999.  "type" is the Python class of the value.          *)
(***************************************************************************)
MaxDeltaDays == 999999999

UsPerSecond == BFromInt(10^6)

UsPerDay == BMul(BFromInt(86400), UsPerSecond)

TD(type, days, seconds, microseconds) ==
    [type |-> type, days |-> days, seconds |-> seconds, microseconds |-> microseconds]

Ok(v) == [status |-> "ok", val |-> v]

NoVal == [type |-> "none"]

Raise(e) == [status |-> e, val |-> NoVal]

\* delta_to_microseconds
delta_to_microseconds(d) ==
    SAdd(SMul(SFromInt(d.days), SInt(FALSE, UsPerDay)),
         SInt(FALSE, BAdd(BMul(BFromInt(d.seconds), UsPerSecond), BFromInt(d.microseconds))))

NormalisedDelta(type, a, b) ==
    IF BCmp(a.q.mag, BFromInt(MaxDeltaDays)) > 0
    THEN Raise("OverflowError")
    ELSE Ok(TD(type, SToInt(a.q), SToInt(b.q), SToInt(b.r)))

SecondsOfDay(type, a) == NormalisedDelta(type, a, SDivMod(a.r, SInt(FALSE, UsPerSecond)))

\* microseconds_to_delta_ex: normalise, and raise OverflowError out of range
microseconds_to_delta(type, us) == SecondsOfDay(type, SDivMod(us, SInt(FALSE, UsPerDay)))

\* timedelta.__new__ with integer arguments (each below 2^31 / 86400)
timedelta_new(type, days, seconds, microseconds, milliseconds, minutes, hours, weeks) ==
    microseconds_to_delta(
        type,
        SAdd(SMul(SFromInt(days + 7 * weeks), SInt(FALSE, UsPerDay)),
             SAdd(SMul(SFromInt(seconds + 60 * minutes + 3600 * hours),
                       SInt(FALSE, UsPerSecond)),
                  SFromInt(microseconds + 1000 * milliseconds))))

\* the float product frac * 10^6 (y), split by modf and rounded half to even
\* onto the whole microseconds x1
AccumRound(x1, yp, one) == BRoundHalfEven(BAdd(x1, yp.q), BCmp(BAdd(yp.r, yp.r), one))

AccumFraction(x1, y) == AccumRound(x1, FloatModf(y), BPow2(y.s))

AccumSeconds(ip, s) ==
    IF ip.r = <<>> THEN BMul(ip.q, UsPerSecond)
    ELSE AccumFraction(BMul(ip.q, UsPerSecond),
                       FloatScaled(FALSE, BMul(ip.r, UsPerSecond), s))

\* timedelta.__new__(cls, seconds=<float>): accum() splits the float with modf,
\* multiplies the fraction by 10^6 in floating point, and rounds what is left
\* to the nearest microsecond, ties to even
timedelta_from_float_seconds(type, f) ==
    microseconds_to_delta(type, SInt(f.neg, AccumSeconds(FloatModf(f), f.s)))

\* timedelta.total_seconds: the microsecond count truly divided by 10^6
FloatOfRatio(us, d) == FloatDiv(us.neg, us.mag, d)

total_seconds(d) == FloatOfRatio(delta_to_microseconds(d), UsPerSecond)

IsTimedelta(v) == v.type \in {"timedelta", "Delta"}

\* a Python int
IntVal(n) == [type |-> "int", val |-> n]

PyInt(k) == IntVal(SFromInt(k))

Tuple(a, b) == [type |-> "tuple", items |-> <<a, b>>]

\* The inherited timedelta operators; each returns the base class
native_add(a, b) ==
    microseconds_to_delta("timedelta",
                          SAdd(delta_to_microseconds(a), delta_to_microseconds(b)))

native_sub(a, b) ==
    microseconds_to_delta("timedelta",
                          SSub(delta_to_microseconds(a), delta_to_microseconds(b)))

\* a * k for an int k
native_mul(a, k) ==
    microseconds_to_delta("timedelta", SMul(delta_to_microseconds(a), k.val))

\* what a // b, a % b and divmod(a, b) share: the floor division of the
\* microsecond counts, b a timedelta or an int
Divisor(b) == IF IsTimedelta(b) THEN delta_to_microseconds(b) ELSE b.val

FloorDiv(a, b) == SDivMod(delta_to_microseconds(a), Divisor(b))

QuotientOf(h, b) ==
    IF IsTimedelta(b) THEN Ok(IntVal(h.q)) ELSE microseconds_to_delta("timedelta", h.q)

RemainderOf(h) == microseconds_to_delta("timedelta", h.r)

PairOf(q, r) == IF r.status # "ok" THEN r ELSE Ok(Tuple(q, r.val))

\* a // k for an int k, a // b for a timedelta b
native_floordiv(a, b) ==
    IF Divisor(b).mag = <<>> THEN Raise("ZeroDivisionError")
    ELSE QuotientOf(FloorDiv(a, b), b)

\* a / k for an int k
native_truediv(a, k) ==
    IF k.val.mag = <<>> THEN Raise("ZeroDivisionError")
    ELSE microseconds_to_delta("timedelta",
                               SDivNearest(delta_to_microseconds(a), k.val))

native_mod(a, b) ==
    IF Divisor(b).mag = <<>> THEN Raise("ZeroDivisionError")
    ELSE RemainderOf(FloorDiv(a, b))

DivmodOf(h) == PairOf(IntVal(h.q), RemainderOf(h))

native_divmod(a, b) ==
    IF Divisor(b).mag = <<>> THEN Raise("ZeroDivisionError")
    ELSE DivmodOf(FloorDiv(a, b))

(***************************************************************************)
(* Delta (src/zulu/timedelta.py)                                           *)
(***************************************************************************)
\* Delta(...): the subclass constructor, integer arguments
Delta(days, seconds, microseconds, milliseconds, minutes, hours, weeks) ==
    timedelta_new("Delta", days, seconds, microseconds, milliseconds, minutes, hours, weeks)

\* Delta.fromtimedelta: cls(seconds=delta.total_seconds())
fromtimedelta(delta) == timedelta_from_float_seconds("Delta", total_seconds(delta))

\* _asdelta.decorated, applied to what the wrapped operator returned or
\* raised: a timedelta, and each timedelta in a tuple, goes through fromtimedelta
ConvertItem(item) == IF IsTimedelta(item) THEN fromtimedelta(item) ELSE Ok(item)

ConsItem(h, t) ==
    IF h.status # "ok" THEN h
    ELSE IF t.status # "ok" THEN t
    ELSE Ok(<<h.val>> \o t.val)

RECURSIVE ConvertItems(_)
ConvertItems(items) ==
    IF items = <<>> THEN Ok(<<>>)
    ELSE ConsItem(ConvertItem(Head(items)), ConvertItems(Tail(items)))

Returned(tuple, r) ==
    IF r.status # "ok" THEN r
    ELSE IF tuple THEN Ok([type |-> "tuple", items |-> r.val])
    ELSE Ok(r.val[1])

_asdelta(result) ==
    IF result.status # "ok" THEN result
    ELSE IF IsTimedelta(result.val) \/ result.val.type = "tuple"
    THEN Returned(result.val.type = "tuple",
                  ConvertItems(IF result.val.type = "tuple" THEN result.val.items
                               ELSE <<result.val>>))
    ELSE result

Delta_add(a, b) == _asdelta(native_add(a, b))

Delta_radd(a, b) == _asdelta(native_add(b, a))

Delta_sub(a, b) == _asdelta(native_sub(a, b))

Delta_mul(a, k) == _asdelta(native_mul(a, k))

Delta_rmul(a, k) == _asdelta(native_mul(a, k))

Delta_floordiv(a, b) == _asdelta(native_floordiv(a, b))

Delta_truediv(a, k) == _asdelta(native_truediv(a, k))

Delta_mod(a, b) == _asdelta(native_mod(a, b))

Delta_divmod(a, b) == _asdelta(native_divmod(a, b))

Delta_min == Delta(-MaxDeltaDays, 0, 0, 0, 0, 0, 0).val

Delta_max == Delta(MaxDeltaDays, 59, 999999, 0, 59, 23, 0).val

Delta_resolution == Delta(0, 0, 1, 0, 0, 0, 0).val

(***************************************************************************)
(* The native calendar: proleptic Gregorian ordinals as in CPython's       *)
(* datetime (ymd_to_ord, ord_to_ymd).                                      *)
(***************************************************************************)
MinYear == 1

MaxYear == 9999

IsLeap(y) == y % 4 = 0 /\ (y % 100 # 0 \/ y % 400 = 0)

DaysInMonth(y, m) ==
    IF m = 2 THEN (IF IsLeap(y) THEN 29 ELSE 28)
    ELSE IF m \in {4, 6, 9, 11} THEN 30 ELSE 31

RECURSIVE DaysBeforeMonth(_, _)
DaysBeforeMonth(y, m) ==
    IF m = 1 THEN 0 ELSE DaysBeforeMonth(y, m - 1) + DaysInMonth(y, m - 1)

DaysBeforeYear(y) ==
    LET p == y - 1 IN p * 365 + (p \div 4) - (p \div 100) + (p \div 400)

Ymd2Ord(y, m, d) == DaysBeforeYear(y) + DaysBeforeMonth(y, m) + d

MaxOrdinal == Ymd2Ord(MaxYear, 12, 31)

\* ord_to_ymd: the 400-, 100-, 4- and 1-year cycles the day n0 falls in, then
\* the month from an estimate that is at most one too large
YmdOfMonth(year, leap, n, month) ==
    [year |-> year, month |-> month,
     day |-> n - DaysBeforeMonth(IF leap THEN 2000 ELSE 2001, month) + 1]

YmdOfEstimate(year, leap, n, m0) ==
    YmdOfMonth(year, leap, n,
               IF DaysBeforeMonth(IF leap THEN 2000 ELSE 2001, m0) > n THEN m0 - 1 ELSE m0)

YmdOfCycles(n400, n100, n4, n1, n) ==
    IF n1 = 4 \/ n100 = 4
    THEN [year |-> n400 * 400 + n100 * 100 + n4 * 4 + n1, month |-> 12, day |-> 31]
    ELSE YmdOfEstimate(n400 * 400 + 1 + n100 * 100 + n4 * 4 + n1,
                       n1 = 3 /\ (n4 # 24 \/ n100 = 3), n, (n + 50) \div 32)

YmdOf4(n400, n100, r100) ==
    YmdOfCycles(n400, n100, r100 \div 1461, (r100 % 1461) \div 365, (r100 % 1461) % 365)

YmdOf400(n400, r400) == YmdOf4(n400, r400 \div 36524, r400 % 36524)

Ord2Ymd(ordinal) == YmdOf400((ordinal - 1) \div 146097, (ordinal - 1) % 146097)

\* date.weekday(): Monday is 0, Sunday is 6
Weekday(ordinal) == (ordinal + 6) % 7

(***************************************************************************)
(* The native datetime: seven calendar fields and a tzinfo.                *)
(***************************************************************************)
NoneTz == [kind |-> "none"]

NativeDt(y, m, d, h, mi, s, us, tz) ==
    [type |-> "datetime", year |-> y, month |-> m, day |-> d, hour |-> h,
     minute |-> mi, second |-> s, microsecond |-> us, tzinfo |-> tz]

\* datetime(...): the constructor checks every field's range
datetime(y, m, d, h, mi, s, us, tz) ==
    IF /\ y \in MinYear..MaxYear
       /\ m \in 1..12
       /\ d >= 1
       /\ d <= DaysInMonth(y, m)
       /\ h \in 0..23
       /\ mi \in 0..59
       /\ s \in 0..59
       /\ us \in 0..999999
    THEN Ok(NativeDt(y, m, d, h, mi, s, us, tz))
    ELSE Raise("ValueError")

\* dt.replace(tzinfo=tz)
WithTz(dt, tz) == [dt EXCEPT !.tzinfo = tz]

Fields(dt) == <<dt.year, dt.month, dt.day, dt.hour, dt.minute, dt.second, dt.microsecond>>

\* the fields as (ordinal day, second of the day, microsecond)
Triple(dt) ==
    [days |-> Ymd2Ord(dt.year, dt.month, dt.day),
     seconds |-> dt.hour * 3600 + dt.minute * 60 + dt.second,
     microseconds |-> dt.microsecond]

\* normalise a (days, seconds, microseconds) triple whose last two are out of range
NormTriple(days, seconds, microseconds) ==
    LET s1 == seconds + ((microseconds - (microseconds % 10^6)) \div 10^6)
    IN  [days |-> days + ((s1 - (s1 % 86400)) \div 86400),
         seconds |-> s1 % 86400,
         microseconds |-> microseconds % 10^6]

TripleLess(a, b) ==
    \/ a.days < b.days
    \/ a.days = b.days /\ a.seconds < b.seconds
    \/ a.days = b.days /\ a.seconds = b.seconds /\ a.microseconds < b.microseconds

DtOfYmd(ymd, t, tz) ==
    NativeDt(ymd.year, ymd.month, ymd.day,
             t.seconds \div 3600, (t.seconds % 3600) \div 60, t.seconds % 60,
             t.microseconds, tz)

\* the datetime of a normalised triple; OverflowError outside year 1..9999
FromTriple(t, tz) ==
    IF t.days < 1 \/ t.days > MaxOrdinal THEN Raise("OverflowError")
    ELSE Ok(DtOfYmd(Ord2Ymd(t.days), t, tz))

AddTriple(t, td, sign, tz) ==
    FromTriple(NormTriple(t.days + sign * td.days,
                          t.seconds + sign * td.seconds,
                          t.microseconds + sign * td.microseconds),
               tz)

\* datetime + timedelta (sign = 1) and datetime - timedelta (sign = -1): field
\* arithmetic that keeps the tzinfo
datetime_add(dt, td, sign) == AddTriple(Triple(dt), td, sign, dt.tzinfo)

Minutes(n) == TD("timedelta", (n - (n % 1440)) \div 1440, (n % 1440) * 60, 0)

(***************************************************************************)
(* Time zones.  A pytz zone is a family of tzinfo instances, one per       *)
(* (utcoffset, dst) the zone has used, each with a fixed offset (minutes); *)
(* the zone's transition table picks the instance in force at a UTC time.  *)
(* A "plain" tzinfo is a rule-based datetime.tzinfo subclass without       *)
(* localize(), after the library reference's USTimeZone.                   *)
(***************************************************************************)
Pytz(zone, utcoffset, dst) ==
    [kind |-> "pytz", zone |-> zone, utcoffset |-> utcoffset, dst |-> dst]

Plain(zone) == [kind |-> "plain", zone |-> zone]

Str(name) == [kind |-> "str", name |-> name]

UTC == Pytz("UTC", 0, 0)

\* pytz.timezone(name): the zone's first tzinfo instance (local mean time for
\* America/New_York), or UnknownTimeZoneError
pytz_timezone(name) ==
    IF name = "UTC" THEN Ok(UTC)
    ELSE IF name = "America/New_York" THEN Ok(Pytz(name, -296, 0))
    ELSE Raise("UnknownTimeZoneError")

SundayFrom(o) == o + ((6 - Weekday(o)) % 7)

\* the ordinal of the first Sunday on or after a date
SundayOnOrAfter(y, m, d) == SundayFrom(Ymd2Ord(y, m, d))

\* United States rule: since 2007 the second Sunday of March to the first Sunday
\* of November, 1987-2006 the first Sunday of April to the last Sunday of October
DstStartDay(y) ==
    SundayOnOrAfter(y, IF y >= 2007 THEN 3 ELSE 4, IF y >= 2007 THEN 8 ELSE 1)

DstEndDay(y) ==
    SundayOnOrAfter(y, IF y >= 2007 THEN 11 ELSE 10, IF y >= 2007 THEN 1 ELSE 25)

At(day, hour) == [days |-> day, seconds |-> hour * 3600, microseconds |-> 0]

\* whether t lies from `first` o'clock on the starting Sunday of year y up to
\* `last` o'clock on its ending Sunday
InDst(t, y, first, last) ==
    /\ ~TripleLess(t, At(DstStartDay(y), first))
    /\ TripleLess(t, At(DstEndDay(y), last))

\* pytz: the (utcoffset, dst) in force at the UTC time t, by bisecting the
\* zone's _utc_transition_times (07:00 and 06:00 UTC for America/New_York)
TransitionInfo(zone, t) ==
    IF zone = "UTC" THEN [utcoffset |-> 0, dst |-> 0]
    ELSE IF InDst(t, Ord2Ymd(t.days).year, 7, 6) THEN [utcoffset |-> -240, dst |-> 60]
    ELSE [utcoffset |-> -300, dst |-> 0]

Under(dt, zone, inf) == WithTz(dt, Pytz(zone, inf.utcoffset, inf.dst))

Shifted(dt) == datetime_add(dt, Minutes(dt.tzinfo.utcoffset), 1)

\* tz.fromutc(dt) of a pytz zone: dt's fields read as UTC
pytz_fromutc(tz, dt) == Shifted(Under(dt, tz.zone, TransitionInfo(tz.zone, Triple(dt))))

FromUtcIf(tz, u) == IF u.status # "ok" THEN u ELSE pytz_fromutc(tz, u.val)

\* tz.normalize(dt): back to UTC with dt's own offset, then fromutc
pytz_normalize(tz, dt) == FromUtcIf(tz, datetime_add(dt, Minutes(dt.tzinfo.utcoffset), -1))

\* the candidates pytz's localize() finds for a naive wall-clock time: the
\* instances in force a day before and a day after, kept when normalising the
\* wall-clock time under them gives it back
CandidateKept(dt, n) ==
    IF n.status = "ok" /\ Fields(n.val) = Fields(dt) THEN {n.val} ELSE {}

CandidateAt(tz, dt, loc) ==
    IF loc.status # "ok" THEN {}
    ELSE CandidateKept(dt, pytz_normalize(tz, Under(dt, tz.zone,
                                                    TransitionInfo(tz.zone, Triple(loc.val)))))

LocalizeCandidates(tz, dt) ==
    UNION {CandidateAt(tz, dt, datetime_add(dt, TD("timedelta", days, 0, 0), 1)) :
               days \in {-1, 1}}

OneOf(c) ==
    IF Cardinality(c) = 1 THEN Ok(CHOOSE v \in c : TRUE)
    ELSE IF c = {} THEN Raise("NonExistentTimeError")
    ELSE Raise("AmbiguousTimeError")

\* tz.localize(dt, is_dst=None): strict, NonExistentTimeError in a gap and
\* AmbiguousTimeError in an overlap
pytz_localize(tz, dt) ==
    IF tz.zone = "UTC" THEN Ok(WithTz(dt, UTC)) ELSE OneOf(LocalizeCandidates(tz, dt))

\* dst() of the plain tzinfo: by the wall clock, from 02:00 on the starting
\* Sunday up to 01:00 on the ending Sunday
PlainDst(zone, dt) ==
    IF zone = "UTC" THEN 0
    ELSE IF InDst(Triple(dt), dt.year, 2, 1) THEN 60 ELSE 0

PlainStdOffset(zone) == IF zone = "UTC" THEN 0 ELSE -300

\* dt.utcoffset() in minutes, for an aware dt
utcoffset(dt) ==
    IF dt.tzinfo.kind = "pytz" THEN dt.tzinfo.utcoffset
    ELSE PlainStdOffset(dt.tzinfo.zone) + PlainDst(dt.tzinfo.zone, dt)

PlusDst(tz, std) ==
    IF std.status # "ok" THEN std
    ELSE datetime_add(std.val, Minutes(PlainDst(tz.zone, std.val)), 1)

\* datetime.tzinfo.fromutc, the default the plain tzinfo inherits
tzinfo_fromutc(tz, dt) == PlusDst(tz, datetime_add(dt, Minutes(PlainStdOffset(tz.zone)), 1))

InZone(tz, u) ==
    IF u.status # "ok" THEN u
    ELSE IF tz.kind = "pytz" THEN pytz_fromutc(tz, WithTz(u.val, tz))
    ELSE tzinfo_fromutc(tz, WithTz(u.val, tz))

\* dt.astimezone(tz) of an aware native datetime
datetime_astimezone(dt, tz) ==
    IF tz = dt.tzinfo THEN Ok(dt)
    ELSE InZone(tz, datetime_add(dt, Minutes(utcoffset(dt)), -1))

UtcOf(t, minutes) == NormTriple(t.days, t.seconds - minutes * 60, t.microseconds)

\* the UTC instant of an aware datetime as a (days, seconds, microseconds) triple
UtcTriple(dt) == UtcOf(Triple(dt), utcoffset(dt))

(***************************************************************************)
(* Native datetime operations DateTime delegates to.                       *)
(***************************************************************************)
IsNaive(dt) == dt.tzinfo.kind = "none"

Bool(b) == [type |-> "bool", val |-> b]

\* what two datetimes are compared by: the fields under one tzinfo object,
\* the UTC instants under two
BaseTriple(dt, same) == IF same THEN Triple(dt) ELSE UtcTriple(dt)

\* a == b: never equal when only one is naive
datetime_eq(a, b) ==
    IF a.tzinfo # b.tzinfo /\ (IsNaive(a) \/ IsNaive(b)) THEN FALSE
    ELSE BaseTriple(a, a.tzinfo = b.tzinfo) = BaseTriple(b, a.tzinfo = b.tzinfo)

CmpTriples(ta, tb) == IF TripleLess(ta, tb) THEN -1 ELSE IF ta = tb THEN 0 ELSE 1

\* the three-way comparison behind <, <=, >, >=; TypeError when only one is naive
datetime_cmp(a, b) ==
    IF a.tzinfo # b.tzinfo /\ (IsNaive(a) \/ IsNaive(b)) THEN Raise("TypeError")
    ELSE Ok(CmpTriples(BaseTriple(a, a.tzinfo = b.tzinfo),
                       BaseTriple(b, a.tzinfo = b.tzinfo)))

AsTimedelta(n) == Ok(TD("timedelta", n.days, n.seconds, n.microseconds))

SubTriples(ta, tb) ==
    AsTimedelta(NormTriple(ta.days - tb.days, ta.seconds - tb.seconds,
                           ta.microseconds - tb.microseconds))

\* a - b for two datetimes: a native timedelta
datetime_sub(a, b) ==
    IF a.tzinfo # b.tzinfo /\ (IsNaive(a) \/ IsNaive(b)) THEN Raise("TypeError")
    ELSE SubTriples(BaseTriple(a, a.tzinfo = b.tzinfo), BaseTriple(b, a.tzinfo = b.tzinfo))

\* hash(dt): a function of the UTC instant for an aware dt, of the fields otherwise
datetime_hash(dt) == [type |-> "hash", key |-> BaseTriple(dt, IsNaive(dt))]

AwareIn(u, tz) == IF u.status # "ok" THEN u ELSE datetime_astimezone(WithTz(u.val, UTC), tz)

\* datetime.fromtimestamp(ts, tz) for whole seconds ts
datetime_fromtimestamp(ts, tz) ==
    AwareIn(datetime_add(NativeDt(1970, 1, 1, 0, 0, 0, 0, tz),
                         TD("timedelta", (ts - (ts % 86400)) \div 86400, ts % 86400, 0), 1),
            tz)

\* datetime.fromordinal(n): midnight, naive
datetime_fromordinal(n) ==
    IF n < 1 \/ n > MaxOrdinal THEN Raise("ValueError")
    ELSE FromTriple([days |-> n, seconds |-> 0, microseconds |-> 0], NoneTz)

\* dt.isoformat(): the fields and, for an aware dt, the offset it prints
datetime_isoformat(dt) ==
    [type |-> "str", fields |-> Fields(dt),
     offset |-> IF IsNaive(dt) THEN NoVal ELSE [type |-> "offset", minutes |-> utcoffset(dt)]]

(***************************************************************************)
(* DateTime (src/zulu/utc.py).  An instance holds one field, __dt.         *)
(***************************************************************************)
Instance(dt) == [type |-> "DateTime", dt |-> dt]

NoObj == NoVal

\* __init__, lines 26-27: an identifier string is resolved by pytz
resolve(tzinfo) ==
    IF tzinfo.kind = "str" /\ tzinfo.name # "" THEN pytz_timezone(tzinfo.name)
    ELSE Ok(tzinfo)

\* a variant of `localized` that attaches every tzinfo with replace(), the
\* strict localize() left out
LocalizedByReplace(tzinfo, naive) ==
    Ok(WithTz(naive, IF tzinfo.kind = "none" THEN UTC ELSE tzinfo))

\* __init__, lines 31-36: localize() when the tzinfo has one, the tzinfo
\* attached as it is when it has none, UTC when there is no tzinfo
localized(tzinfo, naive) ==
    IF tzinfo.kind = "plain" THEN Ok(WithTz(naive, tzinfo))
    ELSE pytz_localize(IF tzinfo.kind = "pytz" THEN tzinfo ELSE UTC, naive)

\* a variant of `stored` that keeps the localized datetime as it is
StoredUnconverted(dt) == Ok(dt)

\* __init__, line 38: what is stored
stored(dt) == datetime_astimezone(dt, UTC)

InitStore(utc) == IF utc.status # "ok" THEN utc ELSE Ok(Instance(utc.val))

InitLocalized(dt) == IF dt.status # "ok" THEN dt ELSE InitStore(stored(dt.val))

InitResolved(tz, naive) ==
    IF tz.status # "ok" THEN tz
    ELSE IF naive.status # "ok" THEN naive
    ELSE InitLocalized(localized(tz.val, naive.val))

__init__(year, month, day, hour, minute, second, microsecond, tzinfo) ==
    InitResolved(resolve(tzinfo),
                 datetime(year, month, day, hour, minute, second, microsecond, NoneTz))

fromdatetime(dt) ==
    __init__(dt.year, dt.month, dt.day, dt.hour, dt.minute, dt.second, dt.microsecond,
             dt.tzinfo)

\* fromdatetime of what a native operation returned, or the exception it raised
FromResult(r) == IF r.status # "ok" THEN r ELSE fromdatetime(r.val)

now(utcnow) == fromdatetime(utcnow)

fromtimestamp(timestamp) == FromResult(datetime_fromtimestamp(timestamp, UTC))

fromordinal(ordinal) == FromResult(datetime_fromordinal(ordinal))

\* date.date() and time.time() of an argument that has the method
DateOf(date) == IF date.type = "DateTime" THEN date.dt ELSE date

TimeOf(time) ==
    IF time.type = "DateTime" THEN WithTz(time.dt, NoneTz)
    ELSE IF time.type = "datetime" THEN WithTz(time, NoneTz)
    ELSE time

datetime_combine(d, t) ==
    NativeDt(d.year, d.month, d.day, t.hour, t.minute, t.second, t.microsecond, t.tzinfo)

combine(date, time) == fromdatetime(datetime_combine(DateOf(date), TimeOf(time)))

\* What a method call leaves behind: the receiver and the DateTime operand as
\* they are after the call, what was returned or raised, and whether the
\* object returned is the receiver itself
Call(self, other, r, same) ==
    [self |-> self, other |-> other, status |-> r.status, val |-> r.val, same |-> same]

__iter__(self) ==
    Call(self, NoObj,
         Ok([type |-> "tuple",
             items |-> <<self.dt.year, self.dt.month, self.dt.day, self.dt.hour,
                         self.dt.minute, self.dt.second, self.dt.microsecond,
                         self.dt.tzinfo>>]),
         FALSE)

naive(self) == Call(self, NoObj, Ok(WithTz(self.dt, NoneTz)), FALSE)

\* a variant of `copy` that hands the receiver back
CopyReturningSelf(self) == Call(self, NoObj, Ok(self), TRUE)

copy(self) == Call(self, NoObj, fromdatetime(self.dt), FALSE)

\* get_timezone (zulu.parser): "local" is the host's zone, an identifier is
\* looked up, a resolved handle passes through
get_timezone(tz, local) ==
    IF tz.kind = "str" THEN (IF tz.name = "local" THEN Ok(local) ELSE pytz_timezone(tz.name))
    ELSE Ok(tz)

InTimezone(dt, z) == IF z.status # "ok" THEN z ELSE datetime_astimezone(dt, z.val)

\* the native datetime of self in tz
Localised(self, tz, local) ==
    InTimezone(self.dt, get_timezone(IF tz.kind = "none" THEN Str("local") ELSE tz, local))

\* astimezone: a native datetime in the zone, not a DateTime
astimezone(self, tz, local) == Call(self, NoObj, Localised(self, tz, local), FALSE)

IsoFormat(dt) == IF dt.status # "ok" THEN dt ELSE Ok(datetime_isoformat(dt.val))

\* format with no pattern: the ISO rendering, in tz when one is given
format(self, tz, local) ==
    Call(self, NoObj,
         IsoFormat(IF tz.kind # "none" THEN Localised(self, tz, local) ELSE Ok(self.dt)),
         FALSE)

\* dt + td (sign = 1) or dt - td (sign = -1) for a timedelta that was constructed
AddResult(dt, td, sign) == IF td.status # "ok" THEN td ELSE datetime_add(dt, td.val, sign)

offset(self, days, seconds, microseconds, milliseconds, minutes, hours, weeks) ==
    Call(self, NoObj,
         FromResult(AddResult(self.dt,
                              timedelta_new("timedelta", days, seconds, microseconds,
                                            milliseconds, minutes, hours, weeks),
                              1)),
         FALSE)

\* a variant of `Replaced` in which a time-of-day argument left out falls back
\* to the constructor's default instead of the current value
ReplacedFromDefaults(args, kw) ==
    LET Arg(i, name) == IF name \in DOMAIN kw THEN kw[name]
                        ELSE IF i \in 4..7 THEN 0 ELSE args[i]
    IN  __init__(Arg(1, "year"), Arg(2, "month"), Arg(3, "day"), Arg(4, "hour"),
                 Arg(5, "minute"), Arg(6, "second"), Arg(7, "microsecond"),
                 Arg(8, "tzinfo"))

\* replace: kw holds the arguments supplied, a name not in it is Missing;
\* args is list(self)
Replaced(args, kw) ==
    LET Arg(i, name) == IF name \in DOMAIN kw THEN kw[name] ELSE args[i]
    IN  __init__(Arg(1, "year"), Arg(2, "month"), Arg(3, "day"), Arg(4, "hour"),
                 Arg(5, "minute"), Arg(6, "second"), Arg(7, "microsecond"),
                 Arg(8, "tzinfo"))

replace(self, kw) == Call(self, NoObj, Replaced(__iter__(self).val.items, kw), FALSE)

_get_comparison_value(other) == IF other.type = "DateTime" THEN other.dt ELSE other

\* the DateTime operand of a binary method, NoObj for a native operand
Operand(other) == IF other.type = "DateTime" THEN other ELSE NoObj

\* a variant of `__eq__` that compares by object identity, as the default
\* of a class without the method does (a second instance is never the receiver)
EqByIdentity(self, other) == Call(self, Operand(other), Ok(Bool(FALSE)), FALSE)

__eq__(self, other) ==
    Call(self, Operand(other),
         Ok(Bool(datetime_eq(self.dt, _get_comparison_value(other)))), FALSE)

__ne__(self, other) ==
    Call(self, Operand(other),
         Ok(Bool(~datetime_eq(self.dt, _get_comparison_value(other)))), FALSE)

\* whether the three-way comparison came out as one of `signs`
Among(c, signs) == IF c.status # "ok" THEN c ELSE Ok(Bool(c.val \in signs))

__lt__(self, other) ==
    Call(self, Operand(other),
         Among(datetime_cmp(self.dt, _get_comparison_value(other)), {-1}), FALSE)

__gt__(self, other) ==
    Call(self, Operand(other),
         Among(datetime_cmp(self.dt, _get_comparison_value(other)), {1}), FALSE)

__le__(self, other) ==
    Call(self, Operand(other),
         Among(datetime_cmp(self.dt, _get_comparison_value(other)), {-1, 0}), FALSE)

__ge__(self, other) ==
    Call(self, Operand(other),
         Among(datetime_cmp(self.dt, _get_comparison_value(other)), {0, 1}), FALSE)

\* self + other for a duration other
__add__(self, other) ==
    Call(self, NoObj, FromResult(datetime_add(self.dt, other, 1)), FALSE)

__radd__(self, other) == __add__(self, other)

DatetimeOf(c) == IF c.status # "ok" THEN c ELSE Ok(c.val.dt)

\* __sub__, lines 285-288: the native value of the operand
Subtrahend(other) ==
    IF other.type = "DateTime" THEN Ok(other.dt)
    ELSE IF other.type = "datetime" THEN DatetimeOf(fromdatetime(other))
    ELSE Ok(other)

\* __sub__, line 290
Difference(dt, o) ==
    IF o.status # "ok" THEN o
    ELSE IF o.val.type = "datetime" THEN datetime_sub(dt, o.val)
    ELSE datetime_add(dt, o.val, -1)

\* __sub__, lines 292-295: a datetime result is wrapped, a timedelta is not
Wrapped(result) ==
    IF result.status # "ok" THEN result
    ELSE IF result.val.type = "datetime" THEN fromdatetime(result.val)
    ELSE result

\* self - other: other is a DateTime, a native datetime or a duration
__sub__(self, other) ==
    Call(self, Operand(other), Wrapped(Difference(self.dt, Subtrahend(other))), FALSE)

__hash__(self) == Call(self, NoObj, Ok(datetime_hash(self.dt)), FALSE)

_EPOCH == __init__(1970, 1, 1, 0, 0, 0, 0, NoneTz).val

TotalSeconds(d) == IF d.status # "ok" THEN Raise(d.status) ELSE Ok(total_seconds(d.val))

timestamp(self) == Call(self, NoObj, TotalSeconds(__sub__(self, _EPOCH)), FALSE)

(***************************************************************************)
(* The Delta state machine: a client that constructs durations and applies *)
(* the wrapped operators to the two it constructed last.                   *)
(***************************************************************************)
LargeDays == 100000

MaxScalar == 1

DeltaDays == {-MaxDeltaDays, 0, LargeDays, MaxDeltaDays}

DeltaSeconds == {0, 86399}

DeltaMicros == {1, 999999}

Scalars == (-MaxScalar)..MaxScalar

\* the second operand of a binary operator
DeltaOperands == {Delta(0, 0, 0, 0, 0, 0, 0).val, Delta_resolution, Delta_min, Delta_max}

\* the base-class value with the fields of d
AsNative(d) == TD("timedelta", d.days, d.seconds, d.microseconds)

DeltaOp(op, a, b, r) ==
    [op |-> op, a |-> a, b |-> b, status |-> r.status, val |-> r.val]

NoDeltaOp == DeltaOp("none", NoVal, NoVal, Raise("none"))

DeltaNew(days, seconds, microseconds) ==
    LET r == Delta(days, seconds, microseconds, 0, 0, 0, 0)
    IN  /\ r.status = "ok"
        /\ da' = r.val
        /\ dout' = DeltaOp("Delta", NoVal, NoVal, r)
        /\ UNCHANGED <<x, src, out>>

DeltaApply(op, a, b, r) ==
    /\ dout' = DeltaOp(op, a, b, r)
    /\ UNCHANGED <<x, src, out, da>>

FromTimedelta == DeltaApply("fromtimedelta", AsNative(da), NoVal, fromtimedelta(AsNative(da)))

DeltaAdd(b) == DeltaApply("__add__", da, b, Delta_add(da, b))

DeltaRadd(b) == DeltaApply("__radd__", da, AsNative(b), Delta_radd(da, AsNative(b)))

DeltaSub(b) == DeltaApply("__sub__", da, b, Delta_sub(da, b))

DeltaMul(k) == DeltaApply("__mul__", da, PyInt(k), Delta_mul(da, PyInt(k)))

DeltaRmul(k) == DeltaApply("__rmul__", da, PyInt(k), Delta_rmul(da, PyInt(k)))

DeltaFloordiv(k) == DeltaApply("__floordiv__", da, PyInt(k), Delta_floordiv(da, PyInt(k)))

DeltaFloordivDelta(b) == DeltaApply("__floordiv__", da, b, Delta_floordiv(da, b))

DeltaTruediv(k) == DeltaApply("__truediv__", da, PyInt(k), Delta_truediv(da, PyInt(k)))

DeltaMod(b) == DeltaApply("__mod__", da, b, Delta_mod(da, b))

DeltaDivmod(b) == DeltaApply("__divmod__", da, b, Delta_divmod(da, b))

NextDelta ==
    \/ \E days \in DeltaDays, seconds \in DeltaSeconds, microseconds \in DeltaMicros :
           DeltaNew(days, seconds, microseconds)
    \/ FromTimedelta
    \/ \E b \in DeltaOperands :
           \/ DeltaAdd(b)
           \/ DeltaRadd(b)
           \/ DeltaSub(b)
           \/ DeltaFloordivDelta(b)
           \/ DeltaMod(b)
           \/ DeltaDivmod(b)
    \/ \E k \in Scalars :
           \/ DeltaMul(k)
           \/ DeltaRmul(k)
           \/ DeltaFloordiv(k)
           \/ DeltaTruediv(k)

(***************************************************************************)
(* The DateTime state machine: a client that holds the instance it         *)
(* constructed last and calls the methods of the class on it.              *)
(***************************************************************************)
MaxShift == 2

FarDays == 3000000

NewYork == "America/New_York"

Wall(year, month, day, hour, minute, second, microsecond) ==
    [year |-> year, month |-> month, day |-> day, hour |-> hour, minute |-> minute,
     second |-> second, microsecond |-> microsecond]

\* wall-clock inputs: around the 2020 spring-forward gap (8 March, 02:00-03:00)
\* and fall-back overlap (1 November, 01:00-02:00) of America/New_York
WallDates == {<<2020, 3, 8>>, <<2020, 11, 1>>}

WallHours == {1, 2, 6}

Walls == {Wall(d[1], d[2], d[3], h, 30, 0, 0) : d \in WallDates, h \in WallHours}

\* the forms of the tzinfo argument: none, identifier strings (one unknown),
\* a pytz zone, and a tzinfo that has no localize()
TzArgs == {NoneTz, Str("UTC"), Str(NewYork), Str("Mars/Olympus"),
           pytz_timezone(NewYork).val, Plain(NewYork)}

HostZones == {UTC, pytz_timezone(NewYork).val}

ZoneArgs == {Str("UTC"), Str(NewYork), Str("Mars/Olympus"), pytz_timezone(NewYork).val,
             Plain(NewYork)}

Clock == {NativeDt(2020, 11, 1, 6, 30, 0, us, NoneTz) : us \in {0, 1}}

Timestamps == {0, 1604212200}

Ordinals == {0, 1, Ymd2Ord(2020, 11, 1)}

Times == {[type |-> "time", hour |-> 1, minute |-> 30, second |-> 0, microsecond |-> 0,
           tzinfo |-> NoneTz]}

Shifts == (-MaxShift)..MaxShift

Durations == {TD("timedelta", 0, 3600, 0), Delta(1, 0, 1, 0, 0, 0, 0).val,
              TD("timedelta", FarDays, 0, 0)}

\* the arguments a second instance is constructed from
OtherArgs == {<<Wall(2020, 3, 8, 6, 30, 0, 0), NoneTz>>,
              <<Wall(2020, 3, 8, 1, 30, 0, 0), Str(NewYork)>>,
              <<Wall(2020, 11, 1, 6, 30, 0, 0), pytz_timezone(NewYork).val>>}

\* keyword arguments of replace(): any name may be left out
ReplaceArgs ==
    {<<>>,
     [year |-> 2021], [month |-> 2], [day |-> 31], [hour |-> 2], [minute |-> 0],
     [second |-> 59], [microsecond |-> 999999],
     [month |-> 2, day |-> 31],
     [year |-> 2021, month |-> 2, day |-> 28, hour |-> 2, minute |-> 0, second |-> 59,
      microsecond |-> 999999],
     [hour |-> 2, tzinfo |-> Str(NewYork)]}

Build(a) ==
    __init__(a[1].year, a[1].month, a[1].day, a[1].hour, a[1].minute, a[1].second,
             a[1].microsecond, a[2])

Built(wall, tz) == [type |-> "built", wall |-> wall, tz |-> tz]

NoSrc == NoVal

\* a call of the constructor or of a class method: the client keeps the
\* instance it returns
ClassCall(op, args, r, s) ==
    /\ out' = [op |-> op, args |-> args, self0 |-> NoObj, self1 |-> NoObj,
               other0 |-> NoObj, other1 |-> NoObj,
               status |-> r.status, val |-> r.val, same |-> FALSE]
    /\ x' = IF r.status = "ok" THEN r.val ELSE x
    /\ src' = IF r.status = "ok" THEN s ELSE src
    /\ UNCHANGED <<da, dout>>

\* a call of a method on the held instance
MethodCall(op, args, other, c) ==
    /\ out' = [op |-> op, args |-> args, self0 |-> x, self1 |-> c.self,
               other0 |-> Operand(other), other1 |-> c.other,
               status |-> c.status, val |-> c.val, same |-> c.same]
    /\ x' = c.self
    /\ UNCHANGED <<src, da, dout>>

Construct(wall, tz) ==
    ClassCall("DateTime", [wall |-> wall, tz |-> tz], Build(<<wall, tz>>), Built(wall, tz))

\* fromdatetime of the native datetime the last call returned
FromDatetime ==
    /\ out.status = "ok"
    /\ out.val.type = "datetime"
    /\ ClassCall("fromdatetime",
                 [dt |-> out.val, via |-> out.op, of |-> out.args, recv |-> out.self0],
                 fromdatetime(out.val), NoSrc)

Now(utcnow) == ClassCall("now", [utcnow |-> utcnow], now(utcnow), NoSrc)

FromTimestamp(ts) == ClassCall("fromtimestamp", [timestamp |-> ts], fromtimestamp(ts), NoSrc)

FromOrdinal(n) == ClassCall("fromordinal", [ordinal |-> n], fromordinal(n), NoSrc)

Combine(time) == ClassCall("combine", [date |-> x, time |-> time], combine(x, time), NoSrc)

Copy == MethodCall("copy", NoVal, NoObj, copy(x))

Offset(days, hours) ==
    MethodCall("offset", [days |-> days, hours |-> hours], NoObj,
               offset(x, days, 0, 0, 0, 0, hours, 0))

Replace(kw) == MethodCall("replace", kw, NoObj, replace(x, kw))

Add(td) == MethodCall("__add__", [other |-> td], NoObj, __add__(x, td))

Radd(td) == MethodCall("__radd__", [other |-> td], NoObj, __radd__(x, td))

\* x - other for a duration
SubDuration(td) == MethodCall("__sub__", [other |-> td], td, __sub__(x, td))

\* x - other for a native datetime
SubNative(dt) == MethodCall("__sub__", [other |-> dt], dt, __sub__(x, dt))

\* the binary methods, other a second instance constructed from a
Sub(a, other) == MethodCall("__sub__", [other |-> a], other, __sub__(x, other))

Eq(a, other) == MethodCall("__eq__", [other |-> a], other, __eq__(x, other))

Ne(a, other) == MethodCall("__ne__", [other |-> a], other, __ne__(x, other))

Lt(a, other) == MethodCall("__lt__", [other |-> a], other, __lt__(x, other))

Gt(a, other) == MethodCall("__gt__", [other |-> a], other, __gt__(x, other))

Le(a, other) == MethodCall("__le__", [other |-> a], other, __le__(x, other))

Ge(a, other) == MethodCall("__ge__", [other |-> a], other, __ge__(x, other))

Binary(a, other) ==
    \/ Sub(a, other)
    \/ \E z \in HostZones : SubNative(datetime_astimezone(other.dt, z).val)
    \/ Eq(a, other)
    \/ Ne(a, other)
    \/ Lt(a, other)
    \/ Gt(a, other)
    \/ Le(a, other)
    \/ Ge(a, other)

Hash == MethodCall("__hash__", NoVal, NoObj, __hash__(x))

AsTimezone(tz) == MethodCall("astimezone", [tz |-> tz], NoObj, astimezone(x, tz, UTC))

\* astimezone() with no argument: the host's zone
AsLocalTimezone(local) ==
    MethodCall("astimezone", [tz |-> local], NoObj, astimezone(x, NoneTz, local))

Format(tz) == MethodCall("format", [tz |-> tz], NoObj, format(x, tz, UTC))

Iter == MethodCall("__iter__", NoVal, NoObj, __iter__(x))

Naive == MethodCall("naive", NoVal, NoObj, naive(x))

Timestamp == MethodCall("timestamp", NoVal, NoObj, timestamp(x))

NoOp ==
    [op |-> "none", args |-> NoVal, self0 |-> NoObj, self1 |-> NoObj,
     other0 |-> NoObj, other1 |-> NoObj, status |-> "none", val |-> NoVal, same |-> FALSE]

\* after import: _EPOCH is the one instance there is, Delta.resolution a Delta
Init ==
    /\ x = _EPOCH
    /\ src = NoSrc
    /\ out = NoOp
    /\ da = Delta_resolution
    /\ dout = NoDeltaOp

Next ==
    \/ \E wall \in Walls, tz \in TzArgs : Construct(wall, tz)
    \/ FromDatetime
    \/ \E utcnow \in Clock : Now(utcnow)
    \/ \E ts \in Timestamps : FromTimestamp(ts)
    \/ \E n \in Ordinals : FromOrdinal(n)
    \/ \E time \in Times \cup {x} : Combine(time)
    \/ Copy
    \/ \E days \in {0, FarDays}, hours \in Shifts : Offset(days, hours)
    \/ \E kw \in ReplaceArgs : Replace(kw)
    \/ \E td \in Durations :
           \/ Add(td)
           \/ Radd(td)
           \/ SubDuration(td)
    \/ \E a \in OtherArgs : Binary(a, Build(a).val)
    \/ Hash
    \/ \E tz \in ZoneArgs : AsTimezone(tz)
    \/ \E local \in HostZones : AsLocalTimezone(local)
    \/ \E tz \in {NoneTz, Str(NewYork)} : Format(tz)
    \/ Iter
    \/ Naive
    \/ Timestamp

Spec == Init /\ [][Next]_vars

SpecDelta == Init /\ [][NextDelta]_vars

(***************************************************************************)
(* Properties of DateTime.  What a (wall clock, zone) input denotes is     *)
(* stated from the zone's rules alone: the UTC instants whose local time   *)
(* in the zone is the wall clock.  A wall clock inside a spring-forward    *)
(* gap has none, one inside a fall-back overlap has two.                   *)
(***************************************************************************)
ZoneOf(tz) ==
    IF tz.kind = "none" THEN "UTC" ELSE IF tz.kind = "str" THEN tz.name ELSE tz.zone

ZoneOffsets(zone) == IF zone = "UTC" THEN {0} ELSE {-300, -240}

InstantAt(u, zone, o) == IF TransitionInfo(zone, u).utcoffset = o THEN {u} ELSE {}

InstantsIn(t, zone) == UNION {InstantAt(UtcOf(t, o), zone, o) : o \in ZoneOffsets(zone)}

WallInstants(wall, tz) == InstantsIn(Triple(wall), ZoneOf(tz))

\* the zone arguments that name a zone: identifier strings and handles
ZoneForms == {Str("UTC"), Str(NewYork), pytz_timezone(NewYork).val, Plain(NewYork)}

EqualTo(a, b) == __eq__(a, b).val = Bool(TRUE)

\* C1: the instance held, every instance a constructor, class method or
\* transformation returned, and the DateTime operand of a call store a native
\* datetime whose tzinfo is UTC, at offset zero
C1_StoredInstantIsUtc ==
    /\ x.dt.tzinfo = UTC
    /\ out.val.type = "DateTime" => out.val.dt.tzinfo = UTC /\ utcoffset(out.val.dt) = 0
    /\ out.other1.type = "DateTime" => out.other1.dt.tzinfo = UTC

\* replace() was given a zone other than UTC and returned an instance
C1_Witness ==
    /\ out.op = "replace"
    /\ out.status = "ok"
    /\ "tzinfo" \in DOMAIN out.args
    /\ out.val.type = "DateTime"

\* C2: a construction whose zone argument names a zone in which the wall
\* clock is nonexistent or ambiguous raises NonExistentTimeError or
\* AmbiguousTimeError, whatever the form of the zone argument
C2_StrictDisambiguation ==
    (/\ out.op = "DateTime"
     /\ out.args.tz \in ZoneForms
     /\ Cardinality(WallInstants(out.args.wall, out.args.tz)) # 1)
    => out.status \in {"AmbiguousTimeError", "NonExistentTimeError"}

Subtracted(other0, args) == IF other0.type = "DateTime" THEN other0.dt ELSE args.other

DifferenceIs(val, ta, tb) ==
    [days |-> val.days, seconds |-> val.seconds, microseconds |-> val.microseconds]
        = NormTriple(ta.days - tb.days, ta.seconds - tb.seconds,
                     ta.microseconds - tb.microseconds)

\* C3: a - b that returns is a Delta, the difference of the two UTC instants,
\* when b is a DateTime or a native datetime, and a DateTime when b is a
\* duration
C3_SubtractionTypes ==
    (out.op = "__sub__" /\ out.status = "ok")
    => IF out.other0.type = "DateTime" \/ out.args.other.type = "datetime"
       THEN /\ out.val.type = "Delta"
            /\ DifferenceIs(out.val, UtcTriple(out.self0.dt),
                            UtcTriple(Subtracted(out.other0, out.args)))
       ELSE out.val.type = "DateTime"

CmpOps == {"__eq__", "__ne__", "__lt__", "__le__", "__gt__", "__ge__"}

Earlier(a, b) == \E s \in a, t \in b : TripleLess(s, t)

ExpectedCmp(op, a, b) ==
    CASE op = "__eq__" -> a = b
      [] op = "__ne__" -> a # b
      [] op = "__lt__" -> Earlier(a, b)
      [] op = "__le__" -> Earlier(a, b) \/ a = b
      [] op = "__gt__" -> Earlier(b, a)
      [] OTHER -> Earlier(b, a) \/ a = b

ComparedAsInstants(op, a, b, status, val) ==
    (Cardinality(a) = 1 /\ Cardinality(b) = 1)
    => status = "ok" /\ val = Bool(ExpectedCmp(op, a, b))

HashedAsInstant(a, val) ==
    Cardinality(a) = 1
    => \A o \in OtherArgs :
           WallInstants(o[1], o[2]) = a => __hash__(Build(o).val).val = val

\* C5: for the instance built from (wall clock, zone) and a second one built
\* from another such input, each denoting one instant, ==, !=, <, <=, >, >=
\* answer as the two instants compare, and the hashes of two instances that
\* denote the same instant are equal
C5_AbsoluteInstantEquality ==
    /\ (out.op \in CmpOps /\ src.type = "built")
       => ComparedAsInstants(out.op, WallInstants(src.wall, src.tz),
                             WallInstants(out.args.other[1], out.args.other[2]),
                             out.status, out.val)
    /\ (out.op = "__hash__" /\ src.type = "built")
       => HashedAsInstant(WallInstants(src.wall, src.tz), out.val)

\* == answered true for two instances built from different zone arguments
C5_Witness ==
    /\ out.op = "__eq__"
    /\ src.type = "built"
    /\ ZoneOf(src.tz) # ZoneOf(out.args.other[2])
    /\ out.val = Bool(TRUE)

RoundTrips(status, val, wall) == status = "ok" /\ Fields(val) = Fields(wall)

FieldNames == {"year", "month", "day", "hour", "minute", "second", "microsecond"}

Supplied(kw, dt, name) == IF name \in DOMAIN kw THEN kw[name] ELSE dt[name]

ReplacedAsSupplied(dt, kw, status, val) ==
    IF status = "ok"
    THEN /\ val.type = "DateTime"
         /\ \A name \in FieldNames : val.dt[name] = Supplied(kw, dt, name)
    ELSE /\ status = "ValueError"
         /\ Supplied(kw, dt, "day")
                > DaysInMonth(Supplied(kw, dt, "year"), Supplied(kw, dt, "month"))

\* C7: replace() without tzinfo returns an instance whose fields are the
\* supplied values where one was supplied and the receiver's elsewhere (it
\* raises ValueError only when these are no date), and replace() with no
\* argument returns an instance equal to the receiver
C7_PartialUpdate ==
    /\ (out.op = "replace" /\ "tzinfo" \notin DOMAIN out.args)
       => ReplacedAsSupplied(out.self0.dt, out.args, out.status, out.val)
    /\ (out.op = "replace" /\ DOMAIN out.args = {})
       => out.status = "ok" /\ EqualTo(out.val, out.self0)

\* replace(year=...) alone returned an instance
C7_Witness ==
    /\ out.op = "replace"
    /\ out.status = "ok"
    /\ DOMAIN out.args = {"year"}
    /\ out.val.dt.year # out.self0.dt.year
    /\ out.val.dt.minute = 30

Transformations == {"offset", "replace", "copy", "__add__", "__radd__", "__sub__"}

C10_BackFromZoneView ==
    (out.op = "fromdatetime" /\ out.args.via = "astimezone")
    => out.status = "ok" /\ EqualTo(out.val, out.args.recv)

(***************************************************************************)
(* Properties of Delta.                                                    *)
(***************************************************************************)
WrappedOps == {"__add__", "__radd__", "__sub__", "__mul__", "__rmul__", "__floordiv__",
               "__truediv__", "__mod__", "__divmod__"}

\* what the inherited operator returns for the operands of the last call
NativeResult(op, a, b) ==
    CASE op = "__add__" -> native_add(a, b)
      [] op = "__radd__" -> native_add(b, a)
      [] op = "__sub__" -> native_sub(a, b)
      [] op \in {"__mul__", "__rmul__"} -> native_mul(a, b)
      [] op = "__floordiv__" -> native_floordiv(a, b)
      [] op = "__truediv__" -> native_truediv(a, b)
      [] op = "__mod__" -> native_mod(a, b)
      [] OTHER -> native_divmod(a, b)

SameDuration(a, b) ==
    a.days = b.days /\ a.seconds = b.seconds /\ a.microseconds = b.microseconds

ClosedUnder(native, status, val) ==
    native.status = "ok"
    => /\ status = "ok"
       /\ IF native.val.type = "tuple"
          THEN /\ val.type = "tuple"
               /\ val.items[1].type = "int"
               /\ val.items[2].type = "Delta"
          ELSE IF native.val.type = "int" THEN val.type = "int"
          ELSE val.type = "Delta"

\* C4: whenever the inherited operator has a result, the wrapped operator
\* returns: a Delta where the inherited one returns a duration, and for
\* divmod a pair of a plain integer and a Delta
C4_ArithmeticClosure ==
    dout.op \in WrappedOps
    => ClosedUnder(NativeResult(dout.op, dout.a, dout.b), dout.status, dout.val)

SameAsNative(native, status, val) ==
    (native.status = "ok" /\ IsTimedelta(native.val))
    => status = "ok" /\ SameDuration(val, native.val)

\* C9: fromtimedelta(d) returns a Delta with d's (days, seconds,
\* microseconds), and a wrapped operator returns the duration the inherited
\* operator returns
C9_FromTimedeltaExact ==
    /\ dout.op = "fromtimedelta"
       => dout.status = "ok" /\ dout.val.type = "Delta" /\ SameDuration(dout.val, dout.a)
    /\ dout.op \in WrappedOps
       => SameAsNative(NativeResult(dout.op, dout.a, dout.b), dout.status, dout.val)

====
